---- MODULE Spec2Model ----
(***************************************************************************)
(* Model of the generation components of agentscope_bricks:                *)
(*   ImageToVideoByFirstAndLastFrameWan22Submit / ...Fetch                 *)
(*   VideoToVideoW26Submit, ImageGenerationWan26, ImageEditWan26.          *)
(* Every component has one asynchronous entry point, arun.  A call is a    *)
(* sequence of atomic segments separated by its awaits; each segment is    *)
(* one action.  Python values are strings; None and a missing key are the  *)
(* two sentinels NoneV and Missing.  The provider, get_api_key and the     *)
(* correlation context are the environment: their results are inputs.      *)
(* The trace_event.on_log callback only reads the call's values and is     *)
(* not part of the state.                                                  *)
(***************************************************************************)
EXTENDS Integers, Sequences, FiniteSets, TLC

\* ------------------------------------------------------------------ bounds
NumCalls == 2
MaxComponents == 2
MaxChoices == 2
MaxItems == 3
MaxCallChoices == 1
MaxCallItems == 1

\* ------------------------------------------------------- program constants
HTTP_OK == 200

\* ------------------------------------------------------------ value domains
NoneV == "None"
Missing == "Missing"

CallIds == 1..NumCalls

OpSubmit22 == "ImageToVideoByFirstAndLastFrameWan22Submit"
OpFetch22 == "ImageToVideoByFirstAndLastFrameWan22Fetch"
OpV2V == "VideoToVideoW26Submit"
OpGen == "ImageGenerationWan26"
OpEdit == "ImageEditWan26"
Ops == {OpSubmit22, OpFetch22, OpV2V, OpGen, OpEdit}

\* the closed status vocabulary documented on the output schemas
TaskStatus == {"PENDING", "RUNNING", "SUCCEEDED", "FAILED", "CANCELED", "UNKNOWN"}
\* what a provider may put in task_status
ProviderStatus == TaskStatus \cup {"succeeded", NoneV}

StatusCodes == {HTTP_OK, 500}
AmbientIds == {NoneV, "", "amb-1", "amb-2"}
ProviderRequestIds == {NoneV, "", "req-1"}
TaskIds == {"t1", "t2"}
ProviderTaskIds == {NoneV, "", "t1"}
VideoUrls == {NoneV, "", "https://v"}

ImageValues == {"", "https://a", "https://b", "https://c"}
StringValues == {"", "https://a", "plain"}
ItemStrings == {"https://a", "plain"}
HttpPrefixed == {"https://a", "https://b", "https://c", "https://v"}

\* ---------------------------------------------------------- python helpers
\* bool(v) of a str-or-None value
Truthy(v) == v \notin {NoneV, Missing, ""}
\* pydantic accepts the value for a field declared `str`
IsStr(v) == v \notin {NoneV, Missing}
\* s.startswith(("http://", "https://"))
StartsWithHttp(s) == s \in HttpPrefixed
\* str(uuid.uuid4()): the n-th identifier generated in this run
Uuid4(n) == "uuid-" \o ToString(n)

\* ------------------------------------------------------------ provider replies
\* One record shape for every reply.  kind = "exception": the transport raised.
\* output: "obj" (present), NoneV (null / falsy), Missing (key absent, JSON only).
\* choices_kind: "list", NoneV or Missing (attribute absent).
MkReply(kind, sc, out, tid, st, url, rid, ck, chs) ==
    [kind |-> kind, status_code |-> sc, output |-> out, task_id |-> tid,
     task_status |-> st, video_url |-> url, request_id |-> rid,
     choices_kind |-> ck, choices |-> chs]

NoReply == MkReply("none", 0, NoneV, NoneV, NoneV, NoneV, NoneV, Missing, <<>>)
TransportException == MkReply("exception", 0, NoneV, NoneV, NoneV, NoneV, NoneV, Missing, <<>>)

\* replies of AioVideoSynthesis.async_call
SubmitReplies ==
    {TransportException}
    \cup {MkReply("reply", sc, NoneV, NoneV, NoneV, NoneV, rid, Missing, <<>>) :
            sc \in StatusCodes, rid \in ProviderRequestIds}
    \cup {MkReply("reply", x[1], "obj", x[2], x[3], "", x[4], Missing, <<>>) :
            x \in StatusCodes \X ProviderTaskIds \X ProviderStatus \X ProviderRequestIds}

\* replies of AioVideoSynthesis.fetch
FetchReplies ==
    {TransportException}
    \cup {MkReply("reply", sc, NoneV, NoneV, NoneV, NoneV, rid, Missing, <<>>) :
            sc \in StatusCodes, rid \in ProviderRequestIds}
    \cup {MkReply("reply", x[1], "obj", x[2], x[3], x[4], x[5], Missing, <<>>) :
            x \in StatusCodes \X ProviderTaskIds \X ProviderStatus \X VideoUrls
                  \X ProviderRequestIds}

\* HTTP replies to the video-synthesis POST: a status and a JSON body
V2VReplies ==
    {TransportException}
    \cup {MkReply("reply", sc, out, Missing, Missing, NoneV, rid, Missing, <<>>) :
            sc \in StatusCodes, out \in {Missing, NoneV}, rid \in {NoneV, "req-1"}}
    \cup {MkReply("reply", x[1], "obj", x[2], x[3], NoneV, x[4], Missing, <<>>) :
            x \in StatusCodes \X (ProviderTaskIds \cup {Missing})
                  \X {Missing, "PENDING", "FAILED", "CANCELED"} \X {NoneV, "req-1"}}

\* ------------------------------------------------------------------ outcomes
\* What arun hands to its caller: a returned output model or a raised error.
\* site names the raise statement; payload is the reply quoted in the message;
\* uuids counts the uuid.uuid4() calls the segment made.
Return(tid, st, url, rid, res, u) ==
    [kind |-> "return", error |-> "", site |-> "", payload |-> NoReply,
     task_id |-> tid, task_status |-> st, video_url |-> url, request_id |-> rid,
     results |-> res, uuids |-> u]

Raise(err, site, payload, u) ==
    [kind |-> "raise", error |-> err, site |-> site, payload |-> payload,
     task_id |-> Missing, task_status |-> Missing, video_url |-> Missing,
     request_id |-> Missing, results |-> <<>>, uuids |-> u]

NoOutcome ==
    [kind |-> "none", error |-> "", site |-> "", payload |-> NoReply,
     task_id |-> Missing, task_status |-> Missing, video_url |-> Missing,
     request_id |-> Missing, results |-> <<>>, uuids |-> 0]

\* a bug the guard could have: CANCELED is not treated as a failure
Rejected_failedOnly(response) ==
    \/ response.status_code # HTTP_OK
    \/ response.output # "obj"
    \/ response.task_status \in {"FAILED"}

\* the guard shared by submit (lines 162-166) and fetch (lines 273-277)
Rejected(response) ==
    \/ response.status_code # HTTP_OK
    \/ response.output # "obj"
    \/ response.task_status \in {"FAILED", "CANCELED"}

\* ImageToVideoByFirstAndLastFrameWan22Submit.arun after the await:
\* request_id is the value read from TracingUtil at entry, n the next uuid index
ImageToVideoByFirstAndLastFrameWan22Submit_finish(request_id, response, n) ==
    IF response.kind = "exception"
    THEN Raise("TransportError", "async_call", NoReply, 0)
    ELSE IF Rejected(response)
    THEN Raise("RuntimeError", "submit_rejected", response, 0)
    ELSE LET gen == ~Truthy(request_id) /\ ~Truthy(response.request_id)
             rid == IF Truthy(request_id) THEN request_id
                    ELSE IF Truthy(response.request_id) THEN response.request_id
                    ELSE Uuid4(n)
             u == IF gen THEN 1 ELSE 0
         IN IF IsStr(response.task_id) /\ IsStr(response.task_status)
            THEN Return(response.task_id, response.task_status, Missing, rid, <<>>, u)
            ELSE Raise("ValidationError", "SubmitOutput", NoReply, u)

\* a bug line 282 could have: no generated fallback
ImageToVideoByFirstAndLastFrameWan22Fetch_finish_noUuid(request_id, response, n) ==
    IF response.kind = "exception"
    THEN Raise("TransportError", "fetch", NoReply, 0)
    ELSE IF Rejected(response)
    THEN Raise("RuntimeError", "fetch_rejected", response, 0)
    ELSE LET rid == IF Truthy(response.request_id) THEN response.request_id
                    ELSE request_id
         IN IF IsStr(response.video_url) /\ IsStr(response.task_id)
               /\ IsStr(response.task_status)
            THEN Return(response.task_id, response.task_status,
                        response.video_url, rid, <<>>, 0)
            ELSE Raise("ValidationError", "FetchOutput", NoReply, 0)

\* ImageToVideoByFirstAndLastFrameWan22Fetch.arun after the await
ImageToVideoByFirstAndLastFrameWan22Fetch_finish(request_id, response, n) ==
    IF response.kind = "exception"
    THEN Raise("TransportError", "fetch", NoReply, 0)
    ELSE IF Rejected(response)
    THEN Raise("RuntimeError", "fetch_rejected", response, 0)
    ELSE LET gen == ~Truthy(response.request_id) /\ ~Truthy(request_id)
             rid == IF Truthy(response.request_id) THEN response.request_id
                    ELSE IF Truthy(request_id) THEN request_id
                    ELSE Uuid4(n)
             u == IF gen THEN 1 ELSE 0
         IN IF IsStr(response.video_url) /\ IsStr(response.task_id)
               /\ IsStr(response.task_status)
            THEN Return(response.task_id, response.task_status,
                        response.video_url, rid, <<>>, u)
            ELSE Raise("ValidationError", "FetchOutput", NoReply, u)

\* VideoToVideoW26Submit.arun once the body is read; request_id is the value
\* TracingUtil returns at line 146
VideoToVideoW26Submit_finish(request_id, response, n) ==
    IF response.kind = "exception"
    THEN Raise("TransportError", "post", NoReply, 0)
    ELSE IF response.status_code # HTTP_OK
    THEN Raise("RuntimeError", "create_failed", response, 0)
    ELSE IF response.output = Missing
    THEN Raise("KeyError", "output", NoReply, 0)
    ELSE IF response.output = NoneV
    THEN Raise("TypeError", "output", NoReply, 0)
    ELSE IF response.task_id = Missing
    THEN Raise("KeyError", "task_id", NoReply, 0)
    ELSE LET rid == IF Truthy(request_id) THEN request_id ELSE Uuid4(n)
             u == IF Truthy(request_id) THEN 0 ELSE 1
         IN IF IsStr(response.task_id)
            THEN Return(response.task_id, Missing, Missing, rid, <<>>, u)
            ELSE Raise("ValidationError", "Wan26Output", NoReply, u)

\* ------------------------------------------------- multimodal reply contents
\* A content item: a dict (v = its "image" value, Missing when it has no such
\* key, e.g. a {"text": ...} record) or a bare string (v = the string).
Item(t, v) == [t |-> t, v |-> v]
Items ==
    {Item("dict", v) : v \in ImageValues \cup {Missing}}
    \cup {Item("str", v) : v \in ItemStrings}

\* all sequences over S of length exactly n
RECURSIVE SeqsOfLen(_, _)
SeqsOfLen(S, n) ==
    IF n = 0 THEN {<<>>}
    ELSE {Append(q, x) : q \in SeqsOfLen(S, n - 1), x \in S}

\* message.content: a list of items, a string, a single dict, or None
Content(t, v, items) == [t |-> t, v |-> v, items |-> items]

\* the contents that hold exactly n content items (a scalar content is one item)
ContentsOfSize(n) ==
    {Content("list", Missing, q) : q \in SeqsOfLen(Items, n)}
    \cup (IF n # 1 THEN {}
          ELSE {Content("str", v, <<>>) : v \in StringValues}
               \cup {Content("dict", v, <<>>) : v \in ImageValues \cup {Missing}}
               \cup {Content("other", NoneV, <<>>)})

\* a reply of AioMultiModalConversation.call whose output has a choices list
ChoicesReply(rid, choices) ==
    MkReply("reply", HTTP_OK, "obj", NoneV, NoneV, NoneV, rid, "list", choices)

\* the replies of AioMultiModalConversation.call without a choices list
PlainImageReplies(codes, rids) ==
    {TransportException}
    \cup {MkReply("reply", sc, NoneV, NoneV, NoneV, NoneV, rid, Missing, <<>>) :
            sc \in codes, rid \in rids}
    \cup {MkReply("reply", HTTP_OK, "obj", NoneV, NoneV, NoneV, rid, ck, <<>>) :
            rid \in rids, ck \in {Missing, NoneV}}

\* ImageGenerationWan26.arun lines 157-159: the inner loop over a list content
RECURSIVE GenListImages(_)
GenListImages(items) ==
    IF items = <<>> THEN <<>>
    ELSE LET item == Head(items)
         IN (IF item.t = "dict" /\ item.v # Missing THEN <<item.v>> ELSE <<>>)
            \o GenListImages(Tail(items))

\* ImageGenerationWan26.arun lines 156-163: what one choice appends to results
GenContentImages(content) ==
    IF content.t = "list" THEN GenListImages(content.items)
    ELSE IF content.t = "str" THEN <<content.v>>
    ELSE IF content.t = "dict" /\ content.v # Missing THEN <<content.v>>
    ELSE <<>>

\* a bug the loop could have: only choices[0] is read
GenResults_firstChoiceOnly(choices) ==
    IF choices = <<>> THEN <<>>
    ELSE GenContentImages(Head(choices))

\* ImageGenerationWan26.arun lines 153-163: the loop over choices
RECURSIVE GenResults(_)
GenResults(choices) ==
    IF choices = <<>> THEN <<>>
    ELSE GenContentImages(Head(choices)) \o GenResults(Tail(choices))

\* ImageEditWan26.arun lines 157-163
RECURSIVE EditListImages(_)
EditListImages(items) ==
    IF items = <<>> THEN <<>>
    ELSE LET item == Head(items)
         IN (IF item.t = "dict" /\ item.v # Missing THEN <<item.v>>
             ELSE IF item.t = "str" /\ StartsWithHttp(item.v) THEN <<item.v>>
             ELSE <<>>)
            \o EditListImages(Tail(items))

\* ImageEditWan26.arun lines 156-175
EditContentImages(msg_content) ==
    IF msg_content.t = "list" THEN EditListImages(msg_content.items)
    ELSE IF msg_content.t = "str" /\ StartsWithHttp(msg_content.v) THEN <<msg_content.v>>
    ELSE IF msg_content.t = "dict" /\ msg_content.v # Missing THEN <<msg_content.v>>
    ELSE <<>>

\* ImageEditWan26.arun lines 153-175
RECURSIVE EditResults(_)
EditResults(choices) ==
    IF choices = <<>> THEN <<>>
    ELSE EditContentImages(Head(choices)) \o EditResults(Tail(choices))

\* pydantic accepts the list for a field declared list[str]
RECURSIVE IsStrList(_)
IsStrList(xs) == xs = <<>> \/ (IsStr(Head(xs)) /\ IsStrList(Tail(xs)))

\* lines 172-175 (generation) and 184-187 (edit)
ImageRequestId(request_id, response, n) ==
    IF Truthy(request_id) THEN request_id
    ELSE IF Truthy(response.request_id) THEN response.request_id
    ELSE Uuid4(n)

ImageUuids(request_id, response) ==
    IF ~Truthy(request_id) /\ ~Truthy(response.request_id) THEN 1 ELSE 0

\* ImageGenerationWan26.arun after the await
ImageGenerationWan26_finish(request_id, response, n) ==
    IF response.kind = "exception"
    THEN Raise("RuntimeError", "call_failed", NoReply, 0)
    ELSE IF response.status_code # HTTP_OK \/ response.output # "obj"
    THEN Raise("RuntimeError", "generation_failed", response, 0)
    ELSE IF response.choices_kind = NoneV
    THEN Raise("RuntimeError", "parse_failed", NoReply, 0)
    ELSE LET results == IF response.choices_kind = "list"
                        THEN GenResults(response.choices) ELSE <<>>
         IN IF results = <<>>
            THEN Raise("RuntimeError", "no_image", response, 0)
            ELSE IF IsStrList(results)
            THEN Return(Missing, Missing, Missing,
                        ImageRequestId(request_id, response, n), results,
                        ImageUuids(request_id, response))
            ELSE Raise("ValidationError", "Wan26Output", NoReply,
                       ImageUuids(request_id, response))

\* ImageEditWan26.arun after the await
ImageEditWan26_finish(request_id, response, n) ==
    IF response.kind = "exception"
    THEN Raise("RuntimeError", "call_failed", NoReply, 0)
    ELSE IF response.status_code # HTTP_OK \/ response.output # "obj"
    THEN Raise("RuntimeError", "generation_failed", response, 0)
    ELSE LET results == IF response.choices_kind = "list"
                        THEN EditResults(response.choices) ELSE <<>>
         IN IF results = <<>>
            THEN Raise("RuntimeError", "no_image", response, 0)
            ELSE IF IsStrList(results)
            THEN Return(Missing, Missing, Missing,
                        ImageRequestId(request_id, response, n), results,
                        ImageUuids(request_id, response))
            ELSE Raise("ValidationError", "ImageGenOutput", NoReply,
                       ImageUuids(request_id, response))

\* ------------------------------------------------------------------- state
VARIABLES
    calls,      \* per call: the arun coroutine's position and locals
    ctx,        \* per call: the ambient correlation id TracingUtil returns
    uuidCount,  \* number of uuid.uuid4() values generated so far
    registry,   \* the bundle table, a dict kept as its entries in insertion order
    overlap,    \* history: the pairs of calls that have been in flight at once
    lookup      \* the id last stored in the process-wide request-id lookup

vars == <<calls, ctx, uuidCount, registry, overlap, lookup>>

\* ------------------------------------------------------ correlation context
\* The host sets the correlation id of an inbound call once, before arun runs:
\* ctx[c] is the id ambient for call c when it starts, lookup the one cell all
\* calls of the process share
SetRequestContext(c, amb) ==
    /\ ctx' = [ctx EXCEPT ![c] = amb]
    /\ lookup' = amb

\* TracingUtil.get_request_id() evaluated inside call c: the values it can
\* give.  The lookup is ambient: it answers with the id of the caller's own
\* context where it is kept per call, and with the id stored last, by
\* whichever call, where it is kept process-wide.
TracingUtil_get_request_id(c) == {ctx[c], lookup}

\* ---------------------------------------------------------------- registry
\* McpServerMeta(instructions=..., components=[...]): pydantic checks the field
\* types only; a component class stands for its name
McpServerMeta(components) == [components |-> components]

\* the dict literal of components/__init__.py, one entry per bundle
mcp_server_metas == <<
    [name |-> "modelstudio_wan_image", meta |-> McpServerMeta(
        <<"ImageGeneration", "ImageEdit", "ImageStyleRepaint",
          "ImageOutPaintingSubmit", "ImageOutPaintingFetch", "ImageOutPaintingAuto">>)],
    [name |-> "modelstudio_wan_video", meta |-> McpServerMeta(
        <<"TextToVideoSubmit", "TextToVideoFetch", "ImageToVideoSubmit",
          "ImageToVideoFetch", "SpeechToVideoSubmit", "SpeechToVideoFetch",
          "ImageToVideoByFirstAndLastFrameWan22Submit", "WanVideoFetch">>)],
    [name |-> "modelstudio_wan25_media", meta |-> McpServerMeta(
        <<"ImageGenerationWan25", "ImageEditWan25", "TextToVideoWan25Submit",
          "TextToVideoWan25Fetch", "ImageToVideoWan25Submit", "ImageToVideoWan25Fetch">>)],
    [name |-> "modelstudio_qwen_image", meta |-> McpServerMeta(
        <<"QwenImageGen", "QwenImageEdit", "QwenImageEditNew">>)],
    [name |-> "modelstudio_web_search", meta |-> McpServerMeta(
        <<"ModelstudioSearchLite">>)],
    [name |-> "modelstudio_speech_to_text", meta |-> McpServerMeta(
        <<"SpeechToText", "MultichannelSpeechToText">>)],
    [name |-> "modelstudio_qwen_text_to_speech", meta |-> McpServerMeta(
        <<"QwenTextToSpeech">>)],
    [name |-> "modelstudio_wan26_media", meta |-> McpServerMeta(
        <<"ImageGenerationWan26", "TextToVideoWan26Submit", "ImageToVideoWan26Submit",
          "WanVideoFetch", "ImageEditWan26", "WanImageInterleaveGeneration",
          "VideoToVideoW26Submit">>)],
    [name |-> "modelstudio_z_image", meta |-> McpServerMeta(
        <<"ZImageGeneration">>)] >>

\* d[name] = meta on a dict: a present key keeps its place, a new one goes last
DictPut(d, name, meta) ==
    IF \E i \in 1..Len(d) : d[i].name = name
    THEN [i \in 1..Len(d) |-> IF d[i].name = name
                              THEN [name |-> name, meta |-> meta] ELSE d[i]]
    ELSE Append(d, [name |-> name, meta |-> meta])

\* bundles a caller of McpServerMeta may build
BundleNames == {"bundle_a", "bundle_b"}
ComponentNames == {"ImageEditWan26", "VideoToVideoW26Submit"}

IdleCall ==
    [op |-> NoneV, pc |-> "idle", task |-> NoneV, request_id |-> NoneV,
     key |-> NoneV, requests |-> 0, response |-> NoReply, outcome |-> NoOutcome]

Init ==
    /\ calls = [c \in CallIds |-> IdleCall]
    /\ ctx = [c \in CallIds |-> NoneV]
    /\ uuidCount = 0
    /\ registry = mcp_server_metas
    /\ overlap = {}
    /\ lookup = NoneV

\* First segment of arun, from entry to the first await: request_id is what
\* the coroutine read from TracingUtil (NoneV when it does not read it here),
\* key_ok tells whether get_api_key returned; an AssertionError becomes the
\* ValueError "Please set valid DASHSCOPE_API_KEY!" and nothing is sent.
\* a bug the entry could have: the request goes out before the key is checked
ArunEntry_requestFirst(op, task, request_id, key_ok) ==
    IF key_ok
    THEN [op |-> op, pc |-> "awaiting", task |-> task, request_id |-> request_id,
          key |-> "ok", requests |-> 1, response |-> NoReply, outcome |-> NoOutcome]
    ELSE [op |-> op, pc |-> "done", task |-> task, request_id |-> request_id,
          key |-> "AssertionError", requests |-> 1, response |-> NoReply,
          outcome |-> Raise("ValueError", "api_key", NoReply, 0)]

ArunEntry(op, task, request_id, key_ok) ==
    IF key_ok
    THEN [op |-> op, pc |-> "awaiting", task |-> task, request_id |-> request_id,
          key |-> "ok", requests |-> 1, response |-> NoReply, outcome |-> NoOutcome]
    ELSE [op |-> op, pc |-> "done", task |-> task, request_id |-> request_id,
          key |-> "AssertionError", requests |-> 0, response |-> NoReply,
          outcome |-> Raise("ValueError", "api_key", NoReply, 0)]

\* The await returns once: the coroutine runs on to its return or raise.
\* a bug the resumption could have: one more request after a failure
ArunResume_retry(call, response, outcome) ==
    IF outcome.kind = "raise" /\ call.requests < 2
    THEN [call EXCEPT !.requests = call.requests + 1]
    ELSE [call EXCEPT !.pc = "done", !.response = response, !.outcome = outcome]

ArunResume(call, response, outcome) ==
    [call EXCEPT !.pc = "done", !.response = response, !.outcome = outcome]

\* the calls suspended at an await
AwaitPoints == {"awaiting", "body", "resp_exit", "session_exit"}
InFlight == {k \in CallIds : calls[k].pc \in AwaitPoints}

\* the host starts call c in correlation context amb and arun runs to its await
Enter(c, op, task, amb, reads_ctx, key_ok) ==
    /\ calls[c].pc = "idle"
    /\ SetRequestContext(c, amb)
    /\ calls' = [calls EXCEPT ![c] =
                    ArunEntry(op, task, IF reads_ctx THEN amb ELSE NoneV, key_ok)]
    /\ overlap' = IF key_ok THEN overlap \cup {{c, k} : k \in InFlight} ELSE overlap
    /\ UNCHANGED <<uuidCount, registry>>

\* the awaited reply arrives and arun finishes with outcome o
Finish(c, response, o) ==
    /\ calls' = [calls EXCEPT ![c] = ArunResume(calls[c], response, o)]
    /\ uuidCount' = uuidCount + o.uuids
    /\ UNCHANGED <<ctx, registry, overlap, lookup>>

\* ---- ImageToVideoByFirstAndLastFrameWan22Submit.arun
Submit22Begin(c, Ambs) ==
    \E amb \in Ambs, key_ok \in BOOLEAN :
        Enter(c, OpSubmit22, NoneV, amb, TRUE, key_ok)

Submit22ReplyFrom(c, R) ==
    /\ calls[c].op = OpSubmit22 /\ calls[c].pc = "awaiting"
    /\ \E r \in R :
         Finish(c, r, ImageToVideoByFirstAndLastFrameWan22Submit_finish(
                          calls[c].request_id, r, uuidCount + 1))

Submit22Reply(c) == Submit22ReplyFrom(c, SubmitReplies)

\* ---- ImageToVideoByFirstAndLastFrameWan22Fetch.arun
Fetch22Begin(c, Ambs, Tasks) ==
    \E amb \in Ambs, task \in Tasks, key_ok \in BOOLEAN :
        Enter(c, OpFetch22, task, amb, TRUE, key_ok)

Fetch22Reply(c, R) ==
    /\ calls[c].op = OpFetch22 /\ calls[c].pc = "awaiting"
    /\ \E r \in R :
         Finish(c, r, ImageToVideoByFirstAndLastFrameWan22Fetch_finish(
                          calls[c].request_id, r, uuidCount + 1))

\* ---- VideoToVideoW26Submit.arun.  It suspends at the POST (line 132), at the
\* body read (line 138 or 143), at the exit of `async with session.post(...)`
\* and at the exit of `async with aiohttp.ClientSession()`; lines 146-151 run
\* after the last of these.  An exception raised inside a block leaves through
\* the same exits before it reaches the caller.
\* the call moves on to its next suspension point
V2VSuspend(c, pc) ==
    /\ calls' = [calls EXCEPT ![c].pc = pc]
    /\ UNCHANGED <<ctx, uuidCount, registry, overlap, lookup>>

V2VBegin(c, Ambs) ==
    \E amb \in Ambs, key_ok \in BOOLEAN :
        Enter(c, OpV2V, NoneV, amb, FALSE, key_ok)

V2VStatusFrom(c, R) ==
    /\ calls[c].op = OpV2V /\ calls[c].pc = "awaiting"
    /\ \E r \in R :
         /\ calls' = [calls EXCEPT ![c].response = r,
                                   ![c].pc = IF r.kind = "exception"
                                             THEN "session_exit" ELSE "body"]
         /\ UNCHANGED <<ctx, uuidCount, registry, overlap, lookup>>

V2VStatus(c) == V2VStatusFrom(c, V2VReplies)

\* the body arrives: lines 138-141 or 143-144 run, then the response is closed
V2VBody(c) ==
    /\ calls[c].op = OpV2V /\ calls[c].pc = "body"
    /\ V2VSuspend(c, "resp_exit")

\* the response is closed, then the session is
V2VRespExit(c) ==
    /\ calls[c].op = OpV2V /\ calls[c].pc = "resp_exit"
    /\ V2VSuspend(c, "session_exit")

\* the session is closed: a pending exception reaches the caller, otherwise
\* line 146 reads the lookup and lines 148-151 build the output
V2VReturn(c) ==
    /\ calls[c].op = OpV2V /\ calls[c].pc = "session_exit"
    /\ \E request_id \in TracingUtil_get_request_id(c) :
         Finish(c, calls[c].response,
                VideoToVideoW26Submit_finish(request_id, calls[c].response,
                                             uuidCount + 1))

\* the awaited multimodal reply arrives: any reply without a choices list, or
\* one whose choices extend `choices` by at most maxChoices contents holding at
\* most maxItems items in all
RECURSIVE ImageReply(_, _, _, _, _, _)
ImageReply(c, rids, codes, choices, maxChoices, maxItems) ==
    \/ /\ choices = <<>>
       /\ \E r \in PlainImageReplies(codes, rids) :
            Finish(c, r, IF calls[c].op = OpGen
                         THEN ImageGenerationWan26_finish(calls[c].request_id, r, uuidCount + 1)
                         ELSE ImageEditWan26_finish(calls[c].request_id, r, uuidCount + 1))
    \/ \E rid \in rids :
         LET r == ChoicesReply(rid, choices)
         IN Finish(c, r, IF calls[c].op = OpGen
                         THEN ImageGenerationWan26_finish(calls[c].request_id, r, uuidCount + 1)
                         ELSE ImageEditWan26_finish(calls[c].request_id, r, uuidCount + 1))
    \/ /\ maxChoices > 0
       /\ \E n \in 0..maxItems : \E content \in ContentsOfSize(n) :
            ImageReply(c, rids, codes, Append(choices, content), maxChoices - 1, maxItems - n)

\* ---- ImageGenerationWan26.arun
GenBegin(c, Ambs) ==
    \E amb \in Ambs, key_ok \in BOOLEAN :
        Enter(c, OpGen, NoneV, amb, TRUE, key_ok)

GenReply(c, rids, codes, maxChoices, maxItems) ==
    /\ calls[c].op = OpGen /\ calls[c].pc = "awaiting"
    /\ ImageReply(c, rids, codes, <<>>, maxChoices, maxItems)

\* ---- ImageEditWan26.arun
EditBegin(c, Ambs) ==
    \E amb \in Ambs, key_ok \in BOOLEAN :
        Enter(c, OpEdit, NoneV, amb, TRUE, key_ok)

EditReply(c, rids, codes, maxChoices, maxItems) ==
    /\ calls[c].op = OpEdit /\ calls[c].pc = "awaiting"
    /\ ImageReply(c, rids, codes, <<>>, maxChoices, maxItems)

\* ------------------------------------------------------------ specifications
\* Spec: one call of any of the five operations, against any reply
Next ==
    \/ Submit22Begin(1, AmbientIds)
    \/ Submit22Reply(1)
    \/ Fetch22Begin(1, AmbientIds, TaskIds)
    \/ Fetch22Reply(1, FetchReplies)
    \/ V2VBegin(1, AmbientIds)
    \/ V2VStatus(1)
    \/ V2VBody(1)
    \/ V2VRespExit(1)
    \/ V2VReturn(1)
    \/ GenBegin(1, AmbientIds)
    \/ GenReply(1, ProviderRequestIds, StatusCodes, MaxCallChoices, MaxCallItems)
    \/ EditBegin(1, AmbientIds)
    \/ EditReply(1, ProviderRequestIds, StatusCodes, MaxCallChoices, MaxCallItems)

Spec == Init /\ [][Next]_vars

\* SpecPoll: a caller polls one task: fetch calls made one after the other
\* while the provider keeps giving the reply it gave to the first one
PollBegin(c) ==
    /\ IF c = 1 THEN TRUE ELSE calls[c - 1].pc = "done"
    /\ Fetch22Begin(c, AmbientIds, IF c = 1 THEN TaskIds ELSE {calls[1].task})

PollReply(c) ==
    Fetch22Reply(c, IF c = 1 THEN FetchReplies
                    ELSE IF calls[1].response.kind = "none" THEN FetchReplies
                    ELSE {calls[1].response})

NextPoll == \E c \in CallIds : PollBegin(c) \/ PollReply(c)

SpecPoll == Init /\ [][NextPoll]_vars

\* SpecImg: one image call against replies with several choices and items
NextImg ==
    \/ GenBegin(1, {NoneV})
    \/ GenReply(1, {NoneV}, {HTTP_OK}, MaxChoices, MaxItems)
    \/ EditBegin(1, {NoneV})
    \/ EditReply(1, {NoneV}, {HTTP_OK}, MaxChoices, MaxItems)

SpecImg == Init /\ [][NextImg]_vars

\* SpecReg: the bundle table under construction, before any call: the module's
\* dict literal is evaluated, or a table is assembled bundle by bundle
InitReg ==
    /\ calls = [c \in CallIds |-> IdleCall]
    /\ ctx = [c \in CallIds |-> NoneV]
    /\ uuidCount = 0
    /\ registry = <<>>
    /\ overlap = {}
    /\ lookup = NoneV

ImportComponents ==
    /\ registry = <<>>
    /\ registry' = mcp_server_metas
    /\ UNCHANGED <<calls, ctx, uuidCount, overlap, lookup>>

AddBundle ==
    \E name \in BundleNames, n \in 0..MaxComponents :
        \E components \in SeqsOfLen(ComponentNames, n) :
            /\ registry' = DictPut(registry, name, McpServerMeta(components))
            /\ UNCHANGED <<calls, ctx, uuidCount, overlap, lookup>>

NextReg == ImportComponents \/ AddBundle

SpecReg == InitReg /\ [][NextReg]_vars

\* SpecConc: every call slot runs a submit or a fetch; the calls start and
\* resume at their awaits in any order
ConcAmbientIds == {NoneV, "amb-1", "amb-2"}

ConcSubmitReplies ==
    {r \in SubmitReplies :
        /\ r.kind = "reply"
        /\ r.request_id \in {NoneV, "req-1"}
        /\ \/ r.status_code # HTTP_OK /\ r.output = NoneV /\ r.request_id = NoneV
           \/ /\ r.status_code = HTTP_OK /\ r.output = "obj" /\ r.task_id = "t1"
              /\ \/ r.task_status = "PENDING"
                 \/ r.task_status = "FAILED" /\ r.request_id = "req-1"}

ConcV2VReplies ==
    {r \in V2VReplies :
        /\ r.kind = "reply"
        /\ \/ r.status_code # HTTP_OK /\ r.output = NoneV /\ r.request_id = NoneV
           \/ /\ r.status_code = HTTP_OK /\ r.output = "obj" /\ r.task_id = "t1"
              /\ r.request_id = "req-1"
              /\ r.task_status \in {"PENDING", "FAILED"}}

ConcFetchReplies ==
    {r \in FetchReplies :
        /\ r.kind = "reply" /\ r.status_code = HTTP_OK /\ r.output = "obj"
        /\ r.task_id = "t1" /\ r.task_status = "SUCCEEDED"
        /\ r.video_url = "https://v"
        /\ r.request_id \in {NoneV, "req-1"}}

NextConc ==
    \E c \in CallIds :
        \/ Submit22Begin(c, ConcAmbientIds)
        \/ Submit22ReplyFrom(c, ConcSubmitReplies)
        \/ Fetch22Begin(c, ConcAmbientIds, {"t1"})
        \/ Fetch22Reply(c, ConcFetchReplies)
        \/ V2VBegin(c, ConcAmbientIds)
        \/ V2VStatusFrom(c, ConcV2VReplies)
        \/ V2VBody(c)
        \/ V2VRespExit(c)
        \/ V2VReturn(c)

SpecConc == Init /\ [][NextConc]_vars

\* ================================================================== claims
Done(c) == calls[c].pc = "done"
GotReply(c) == Done(c) /\ calls[c].response.kind = "reply"
Returned(c) == Done(c) /\ calls[c].outcome.kind = "return"
Raised(c) == Done(c) /\ calls[c].outcome.kind = "raise"
SubmitOps == {OpSubmit22, OpV2V}
ImageOps == {OpGen, OpEdit}
TransportOk(r) == r.kind = "reply" /\ r.status_code = HTTP_OK

\* C1: a submit call whose reply has task_status FAILED or CANCELED raises and
\* returns no task handle.
C1_SubmitTerminalFailureRaises ==
    \A c \in CallIds :
        (calls[c].op \in SubmitOps /\ GotReply(c)
         /\ calls[c].response.task_status \in {"FAILED", "CANCELED"})
        => Raised(c)

\* C2: every output returned by any of the five operations has a non-empty
\* request_id, whatever the ambient id and the provider's request_id were.
C2_ReturnedRequestIdNonEmpty ==
    \A c \in CallIds :
        Returned(c) => (IsStr(calls[c].outcome.request_id)
                        /\ calls[c].outcome.request_id # "")

\* a fetch returned although neither the context nor the provider had an id
C2_Witness ==
    \E c \in CallIds :
        /\ Returned(c) /\ calls[c].op = OpFetch22
        /\ ~Truthy(ctx[c]) /\ ~Truthy(calls[c].response.request_id)
        /\ calls[c].outcome.uuids = 1

\* C3: a fetch whose transport-ok reply is PENDING, RUNNING or UNKNOWN and has
\* no video URL returns an output with that status and does not raise.
C3_NonTerminalFetchReturns ==
    \A c \in CallIds :
        (calls[c].op = OpFetch22 /\ GotReply(c) /\ TransportOk(calls[c].response)
         /\ calls[c].response.output = "obj"
         /\ IsStr(calls[c].response.task_id)
         /\ calls[c].response.task_status \in {"PENDING", "RUNNING", "UNKNOWN"}
         /\ ~Truthy(calls[c].response.video_url))
        => (Returned(c)
            /\ calls[c].outcome.task_status = calls[c].response.task_status)

\* C4: a fetch whose reply is FAILED or CANCELED raises an error that carries
\* the provider reply, and returns nothing.
C4_FetchTerminalFailureRaisesWithReply ==
    \A c \in CallIds :
        (calls[c].op = OpFetch22 /\ GotReply(c)
         /\ calls[c].response.task_status \in {"FAILED", "CANCELED"})
        => (Raised(c) /\ calls[c].outcome.payload = calls[c].response)

\* a fetch finished on a transport-ok CANCELED reply
C4_Witness ==
    \E c \in CallIds :
        /\ calls[c].op = OpFetch22 /\ GotReply(c) /\ TransportOk(calls[c].response)
        /\ calls[c].response.task_status = "CANCELED"
        /\ calls[c].response.video_url = "https://v"
        /\ Raised(c)

\* C5: two fetches of the same task_id in the same correlation context that
\* got the same provider reply return the same task_status and, when it is
\* SUCCEEDED, the same video_url, task_id, task_status and request_id.
C5_FetchIdempotent ==
    \A c1, c2 \in CallIds :
        (/\ calls[c1].op = OpFetch22 /\ calls[c2].op = OpFetch22
         /\ GotReply(c1) /\ GotReply(c2)
         /\ calls[c1].task = calls[c2].task
         /\ ctx[c1] = ctx[c2]
         /\ calls[c1].response = calls[c2].response)
        => /\ calls[c1].outcome.task_status = calls[c2].outcome.task_status
           /\ (Returned(c1) /\ calls[c1].outcome.task_status = "SUCCEEDED")
              => /\ Returned(c2)
                 /\ calls[c1].outcome.video_url = calls[c2].outcome.video_url
                 /\ calls[c1].outcome.task_id = calls[c2].outcome.task_id
                 /\ calls[c1].outcome.request_id = calls[c2].outcome.request_id

\* C6: a call never issues more than one provider request, and a call that
\* got any reply (or a transport failure) issued exactly one.
C6_OneProviderRequestPerCall ==
    \A c \in CallIds :
        /\ calls[c].requests <= 1
        /\ calls[c].pc \in AwaitPoints => calls[c].requests = 1
        /\ (Done(c) /\ calls[c].response.kind # "none") => calls[c].requests = 1

\* a fetch ended on a transport failure
C6_Witness ==
    \E c \in CallIds :
        /\ calls[c].op = OpFetch22 /\ Raised(c)
        /\ calls[c].response.kind = "exception"
        /\ calls[c].requests = 1

\* C7: when get_api_key fails the call raises the configuration error
\* (ValueError) and has issued no provider request.
C7_CredentialFailureBeforeAnyRequest ==
    \A c \in CallIds :
        calls[c].key = "AssertionError"
        => /\ Raised(c)
           /\ calls[c].outcome.error = "ValueError"
           /\ calls[c].requests = 0
           /\ calls[c].response.kind = "none"

\* the image edit call ended on a credential failure
C7_Witness ==
    \E c \in CallIds :
        /\ calls[c].op = OpEdit /\ Done(c)
        /\ calls[c].key = "AssertionError"

\* C8: a submit whose transport-ok reply has no output or no task identifier
\* raises the RuntimeError used for rejected replies.
C8_SubmitMalformedReplyRaisesBackendError ==
    \A c \in CallIds :
        (calls[c].op \in SubmitOps /\ GotReply(c) /\ TransportOk(calls[c].response)
         /\ (calls[c].response.output # "obj" \/ ~IsStr(calls[c].response.task_id)))
        => (Raised(c) /\ calls[c].outcome.error = "RuntimeError")

\* C9: no success without an artifact: a returned SUCCEEDED fetch has a
\* non-empty video_url, and a returned image result is a non-empty list of
\* non-empty references.
C9_NoSuccessWithoutArtifact ==
    \A c \in CallIds :
        Returned(c) =>
            /\ (calls[c].op = OpFetch22 /\ calls[c].outcome.task_status = "SUCCEEDED")
               => Truthy(calls[c].outcome.video_url)
            /\ calls[c].op \in ImageOps
               => /\ calls[c].outcome.results # <<>>
                  /\ \A i \in 1..Len(calls[c].outcome.results) :
                        Truthy(calls[c].outcome.results[i])

\* the image references of a reply: the non-empty "image" values of its
\* records, by choice and then by content item
ItemRef(item) ==
    IF item.t = "dict" /\ item.v \notin {Missing, ""} THEN <<item.v>> ELSE <<>>

RECURSIVE ListRefs(_)
ListRefs(items) ==
    IF items = <<>> THEN <<>> ELSE ItemRef(Head(items)) \o ListRefs(Tail(items))

RECURSIVE ReplyImageRefs(_)
ReplyImageRefs(choices) ==
    IF choices = <<>> THEN <<>>
    ELSE (IF Head(choices).t = "list" THEN ListRefs(Head(choices).items)
          ELSE ItemRef(Head(choices)))
         \o ReplyImageRefs(Tail(choices))

\* a occurs in b as a subsequence: every element, with its multiplicity, in order
RECURSIVE IsSubseq(_, _)
IsSubseq(a, b) ==
    IF a = <<>> THEN TRUE
    ELSE IF b = <<>> THEN FALSE
    ELSE IF Head(a) = Head(b) THEN IsSubseq(Tail(a), Tail(b))
    ELSE IsSubseq(a, Tail(b))

NonEmptyStr(x) == x # ""

\* the reply holds a bare string, as a content or as a list item
HasBareString(choices) ==
    \E i \in 1..Len(choices) :
        \/ choices[i].t = "str"
        \/ \E j \in 1..Len(choices[i].items) : choices[i].items[j].t = "str"

\* C10: the results returned by image generation and image edit contain every
\* non-empty image reference of the reply, with its multiplicity, in encounter
\* order (choice, then item); when the reply holds no bare string the
\* non-empty results are exactly those references.
C10_ImageRefsAllInEncounterOrder ==
    \A c \in CallIds :
        (calls[c].op \in ImageOps /\ Returned(c)) =>
            LET refs == ReplyImageRefs(calls[c].response.choices)
                results == calls[c].outcome.results
            IN /\ IsSubseq(refs, results)
               /\ ~HasBareString(calls[c].response.choices)
                  => SelectSeq(results, NonEmptyStr) = refs

\* image generation returned three distinct references found in two choices
C10_Witness ==
    \E c \in CallIds :
        /\ calls[c].op = OpGen /\ Returned(c)
        /\ Len(calls[c].response.choices) = 2
        /\ ReplyImageRefs(<<calls[c].response.choices[1]>>) # <<>>
        /\ ReplyImageRefs(<<calls[c].response.choices[2]>>) # <<>>
        /\ calls[c].outcome.results = <<"https://b", "https://a", "https://c">>

\* C12: every task_status returned by the keyframe submit and by the fetch is
\* one of PENDING, RUNNING, SUCCEEDED, FAILED, CANCELED, UNKNOWN, whatever
\* status string the provider sent.
C12_ReturnedStatusInClosedSet ==
    \A c \in CallIds :
        (calls[c].op \in {OpSubmit22, OpFetch22} /\ Returned(c))
        => calls[c].outcome.task_status \in TaskStatus

\* C13: the fetch returns an output carrying a video URL only when the reply's
\* task_status is SUCCEEDED.
C13_VideoUrlOnlyWhenSucceeded ==
    \A c \in CallIds :
        (calls[c].op = OpFetch22 /\ Returned(c) /\ Truthy(calls[c].outcome.video_url))
        => calls[c].response.task_status = "SUCCEEDED"

\* C14: a successful submit returns the ambient correlation id when there is
\* one, else the provider reply's request_id when there is one, else a
\* generated id.
C14_SubmitRequestIdPrecedence ==
    \A c \in CallIds :
        (calls[c].op \in SubmitOps /\ Returned(c)) =>
            calls[c].outcome.request_id =
                (IF Truthy(ctx[c]) THEN ctx[c]
                 ELSE IF Truthy(calls[c].response.request_id)
                      THEN calls[c].response.request_id
                 ELSE Uuid4(uuidCount))

\* C17: on one and the same reply, image generation and image edit either both
\* raise or both return, and then with the same results.
C17_GenAndEditExtractAlike ==
    \A c \in CallIds :
        (calls[c].op \in ImageOps /\ GotReply(c)) =>
            LET gen == ImageGenerationWan26_finish(calls[c].request_id, calls[c].response, 1)
                edit == ImageEditWan26_finish(calls[c].request_id, calls[c].response, 1)
            IN /\ gen.kind = edit.kind
               /\ gen.results = edit.results

\* C11: no component name appears in more than one bundle of the registry; a
\* table in which two bundles share a component is never constructed.
C11_RegistryNamesUnique ==
    \A i, j \in 1..Len(registry) :
        i # j => \A k \in 1..Len(registry[i].meta.components) :
                    \A l \in 1..Len(registry[j].meta.components) :
                        registry[i].meta.components[k] # registry[j].meta.components[l]

\* C15: concurrent calls are isolated in their correlation id: of two calls
\* with different ambient ids that were in flight at once, each one that
\* returns hands back the id that was ambient for it when it started.
C15_CallsIsolatedInCorrelationId ==
    \A c, k \in CallIds :
        (/\ c # k /\ {c, k} \in overlap
         /\ Truthy(ctx[c]) /\ Truthy(ctx[k]) /\ ctx[c] # ctx[k]
         /\ Returned(c))
        => calls[c].outcome.request_id = ctx[c]

\* a reply turned down for a transport-level reason, and one turned down for
\* its terminal status alone
TransportRejected(r) ==
    r.kind = "reply" /\ (r.status_code # HTTP_OK \/ r.output # "obj" \/ ~Truthy(r.task_id))

TerminalRejected(r) ==
    /\ TransportOk(r) /\ r.output = "obj" /\ Truthy(r.task_id)
    /\ r.task_status \in {"FAILED", "CANCELED"}

\* C16: on submit, a reply rejected for a transport-level reason and a reply
\* rejected for its FAILED/CANCELED status both raise, and raise errors of two
\* different kinds.
C16_SubmitErrorKindsDiffer ==
    \A c, k \in CallIds :
        (/\ calls[c].op \in SubmitOps /\ GotReply(c) /\ TransportRejected(calls[c].response)
         /\ calls[k].op = calls[c].op /\ GotReply(k) /\ TerminalRejected(calls[k].response))
        => /\ Raised(c) /\ Raised(k)
           /\ calls[c].outcome.error # calls[k].outcome.error

====
